---- MODULE Spec2Model ----
(***************************************************************************)
(* Model of packages/core/src/express-extension/use-express-server.ts:     *)
(* the bootstrap pass that turns module / controller / route metadata into *)
(* Express route registrations, the path combiner, the prefix lookup and   *)
(* the async dispatch wrapper.                                             *)
(*                                                                         *)
(* JavaScript strings are modelled as sequences of one-character strings,  *)
(* so "/a//b" is <<"/", "a", "/", "/", "b">>.                               *)
(***************************************************************************)
EXTENDS Naturals, Sequences, FiniteSets, TLC

VARIABLES
    \* ---- arguments and result of one combineRouterPath call
    prefix, path, result,
    \* ---- the bootstrap pass (useExpressServer and what it calls)
    option,                 \* the ExpressAppOption argument (<<>> when omitted)
    unresolvable,           \* controllers whose dependency graph cannot be satisfied
    pc,                     \* position of the synchronous execution
    controllerClasses, moduleClasses, mi,                \* locals of useExpressServer
    controllers, providers, globalProvidersClasses, ci,  \* locals of addModuleToExpressApp
    combinedRoutes, controllerInstance,                  \* locals of the forEach body
    app,                    \* the Express routing table, in registration order
    injectors,              \* every ReflectiveInjector created so far
    trace,                  \* events of the current pass, in order
    passes,                 \* outcome of every finished useExpressServer call
    \* ---- requests served by the registered handlers
    served,                 \* request -> index in app of the entry that serves it
    promise,                \* request -> the promise fn(req, res, next) returned
    calls,                  \* controller-method invocations, in order
    nextCalls,              \* next continuation -> arguments the wrapper called it with
    hung                    \* requests whose controller method never settles

bootVars == <<option, unresolvable, pc, controllerClasses, moduleClasses, mi,
              controllers, providers, globalProvidersClasses, ci, combinedRoutes,
              controllerInstance, app, injectors, trace, passes>>
pathVars == <<prefix, path, result>>
dispatchVars == <<served, promise, calls, nextCalls, hung>>
vars == <<pathVars, bootVars, dispatchVars>>

(***************************************************************************)
(* Bounds of the model.                                                    *)
(***************************************************************************)
MaxLen == 3
MaxRoutes == 3
MaxImports == 2
MaxStandalone == 1
MaxCalls == 2
MaxRequests == 2

SeqsUpTo(S, n) == UNION {[1..k -> S] : k \in 0..n}

(***************************************************************************)
(* String primitives.                                                      *)
(***************************************************************************)
Chars == {"/", "a", "b", "x"}
Strings == SeqsUpTo(Chars, MaxLen)

\* String.prototype.charAt(i): '' when i is out of range
charAt(s, i) == IF i + 1 <= Len(s) THEN s[i + 1] ELSE ""

\* String.prototype.substring(i)
substring(s, i) == SubSeq(s, i + 1, Len(s))

(***************************************************************************)
(* combineRouterPath                                                       *)
(***************************************************************************)
combineRouterPathStripAll(pfx, pth) ==
    LET RECURSIVE strip(_)
        strip(s) == IF charAt(s, 0) = "/" THEN strip(substring(s, 1)) ELSE s
        r == strip(pfx) \o <<"/">> \o strip(pth)
    IN  IF charAt(r, 0) # "/" THEN <<"/">> \o r ELSE r

combineRouterPathNoLead(pfx, pth) ==
    LET p1 == IF pfx # <<>> /\ charAt(pfx, 0) = "/" THEN substring(pfx, 1) ELSE pfx
        q1 == IF pth # <<>> /\ charAt(pth, 0) = "/" THEN substring(pth, 1) ELSE pth
    IN  p1 \o <<"/">> \o q1

combineRouterPath(pfx, pth) ==
    LET r0 == <<>>
        p1 == IF pfx # <<>> /\ charAt(pfx, 0) = "/" THEN substring(pfx, 1) ELSE pfx
        r1 == IF pfx # <<>> THEN r0 \o p1 ELSE r0
        r2 == r1 \o <<"/">>
        q1 == IF pth # <<>> /\ charAt(pth, 0) = "/" THEN substring(pth, 1) ELSE pth
        r3 == IF pth # <<>> THEN r2 \o q1 ELSE r2
    IN  IF charAt(r3, 0) # "/" THEN <<"/">> \o r3 ELSE r3

(***************************************************************************)
(* getPrefix: `for (const i in routes) if (routes[i].isClass) return ...`  *)
(***************************************************************************)
getPrefixLast(routes) ==
    LET hits == {i \in 1..Len(routes) : routes[i].isClass}
    IN  IF hits = {} THEN <<>>
        ELSE routes[CHOOSE i \in hits : \A j \in hits : j <= i].path

RECURSIVE getPrefixFrom(_, _)
getPrefixFrom(routes, i) ==
    IF i > Len(routes) THEN <<>>
    ELSE IF routes[i].isClass THEN routes[i].path
    ELSE getPrefixFrom(routes, i + 1)

getPrefix(routes) == getPrefixFrom(routes, 1)

(***************************************************************************)
(* Metadata collected by the decorators before the bootstrap runs.         *)
(* An optional property is <<>> when absent and <<v>> when present.        *)
(***************************************************************************)
ControllerClasses == {"UserCtl", "PostCtl", "PingCtl"}
ModuleClasses == {"UserModule", "PingModule", "EmptyModule"}
ProviderClasses == {"UserSvc", "PostSvc", "Logger"}

\* Reflect.getMetadata('module', moduleClass)
ModuleMetadata ==
    [m \in ModuleClasses |->
        CASE m = "UserModule" -> [controllers |-> << <<"UserCtl", "PostCtl">> >>,
                                  providers |-> << <<"UserSvc", "PostSvc">> >>]
          [] m = "PingModule" -> [controllers |-> << <<"PingCtl">> >>,
                                  providers |-> <<>>]
          [] m = "EmptyModule" -> [controllers |-> <<>>,
                                   providers |-> << <<"PostSvc">> >>]]

Route(isClass, requestMethod, pth, methodName, middlewares) ==
    [isClass |-> isClass, requestMethod |-> requestMethod, path |-> pth,
     methodName |-> methodName, middlewares |-> middlewares]

\* combineRouteWithMiddleware(controller, store.routes, store.middlewares)
combineRouteWithMiddleware(controller) ==
    CASE controller = "UserCtl" ->
            << Route(TRUE, "", <<"/", "u">>, "", <<>>),
               Route(FALSE, "get", <<"/", ":">>, "findOne", <<"auth">>),
               Route(FALSE, "post", <<>>, "create", <<"auth", "json">>) >>
      [] controller = "PostCtl" ->
            << Route(FALSE, "get", <<"p">>, "list", <<>>) >>
      [] controller = "PingCtl" ->
            << Route(FALSE, "get", <<"/", "h">>, "ping", <<>>),
               Route(TRUE, "", <<"k", "/">>, "", <<>>),
               Route(FALSE, "get", <<"/", "u", "/", ":">>, "probe", <<>>) >>

(***************************************************************************)
(* Optional chaining with a default: `x?.k || []`.                         *)
(***************************************************************************)
orEmpty(maybe) == IF maybe = <<>> THEN <<>> ELSE maybe[1]
optionList(opt, k) == IF opt = <<>> THEN <<>> ELSE orEmpty(opt[1][k])

(***************************************************************************)
(* The handler closures.                                                   *)
(***************************************************************************)
\* callInstance(instance, route): asyncHelper around instance[route.methodName]
callInstance(instance, route) ==
    [instance |-> instance, methodName |-> route.methodName]

\* combineMiddlewares(...route.middlewares)
combineMiddlewares(middlewares) == [chain |-> middlewares]

(***************************************************************************)
(* addRouterToExpress, as a function of the routing table.                 *)
(***************************************************************************)
\* a registrar that skips a verb+path the table already holds
registerRouteOnce(table, pfx, route, instance) ==
    LET routePath == combineRouterPath(pfx, route.path)
        held == \E k \in 1..Len(table) :
                    table[k].method = route.requestMethod /\ table[k].path = routePath
    IN  IF route.isClass \/ held THEN table
        ELSE Append(table, [method |-> route.requestMethod, path |-> routePath,
                            stack |-> IF Len(route.middlewares) > 0
                                      THEN << [chain |-> route.middlewares],
                                              [instance |-> instance,
                                               methodName |-> route.methodName] >>
                                      ELSE << [instance |-> instance,
                                               methodName |-> route.methodName] >>])

\* body of combinedRoutes.forEach
registerRoute(table, pfx, route, instance) ==
    IF ~route.isClass
    THEN LET requestMethod == route.requestMethod
             routePath == combineRouterPath(pfx, route.path)
         IN  IF Len(route.middlewares) > 0
             THEN Append(table, [method |-> requestMethod, path |-> routePath,
                                 stack |-> << combineMiddlewares(route.middlewares),
                                              callInstance(instance, route) >>])
             ELSE Append(table, [method |-> requestMethod, path |-> routePath,
                                 stack |-> << callInstance(instance, route) >>])
    ELSE table

\* the same loop walking the list from its end
RECURSIVE forEachRouteReversed(_, _, _, _, _)
forEachRouteReversed(table, pfx, routes, i, instance) ==
    IF i > Len(routes) THEN table
    ELSE forEachRouteReversed(
             registerRoute(table, pfx, routes[Len(routes) + 1 - i], instance),
             pfx, routes, i + 1, instance)

RECURSIVE forEachRoute(_, _, _, _, _)
forEachRoute(table, pfx, routes, i, instance) ==
    IF i > Len(routes) THEN table
    ELSE forEachRoute(registerRoute(table, pfx, routes[i], instance),
                      pfx, routes, i + 1, instance)

addRouterToExpress(table, routes, instance) ==
    forEachRoute(table, getPrefix(routes), routes, 1, instance)

\* what the routing table gained, as events of the pass
registered(before, after) ==
    [k \in 1..(Len(after) - Len(before)) |->
        LET e == after[Len(before) + k]
        IN  [type |-> "register", class |-> e.stack[Len(e.stack)].instance.class,
             method |-> e.method, path |-> e.path]]

(***************************************************************************)
(* Serving requests: asyncHelper and the closure callInstance gives it.    *)
(* Request r owns the triple (req, res, next) numbered r.                  *)
(***************************************************************************)
Requests == 1..MaxRequests
Errors == {"E1", "E2"}

\* the methods a controller instance has
Methods(class) ==
    CASE class = "UserCtl" -> {"findOne", "create"}
      [] class = "PostCtl" -> {"list"}
      [] class = "PingCtl" -> {"ping", "probe"}

NoPromise == [state |-> "none", reason |-> "", onFulfilled |-> 0, onRejected |-> 0,
              reacted |-> FALSE]

\* lines 116-118: the promise of the async arrow function, given how
\* instance[route.methodName](req, res, next) ends: an absent method and a
\* synchronous throw reject it, an awaited result leaves it pending
fn(handler, outcome) ==
    IF handler.methodName \notin Methods(handler.instance.class)
    THEN [state |-> "rejected", reason |-> "TypeError"]
    ELSE IF outcome.kind = "throws"
    THEN [state |-> "rejected", reason |-> outcome.error]
    ELSE [state |-> "pending", reason |-> ""]

\* a wrapper that hands the outcome to next whether it failed or not
asyncHelperFinally(p, next) ==
    [state |-> p.state, reason |-> p.reason, onFulfilled |-> next, onRejected |-> next,
     reacted |-> FALSE]

\* a wrapper that keeps the next of the first request it served
asyncHelperFirstNext(p, next) ==
    [state |-> p.state, reason |-> p.reason, onFulfilled |-> 0, onRejected |-> 1,
     reacted |-> FALSE]

\* lines 125-127: fn(req, res, next).catch(next)
asyncHelper(p, next) ==
    [state |-> p.state, reason |-> p.reason, onFulfilled |-> 0, onRejected |-> next,
     reacted |-> FALSE]

DispatchIdle ==
    /\ served = [r \in Requests |-> 0]
    /\ promise = [r \in Requests |-> NoPromise]
    /\ calls = <<>>
    /\ nextCalls = [r \in Requests |-> <<>>]
    /\ hung = {}

(***************************************************************************)
(* The bootstrap pass.                                                     *)
(***************************************************************************)
Maybe(S) == {<<>>} \cup {<<v>> : v \in S}

Options ==
    Maybe([imports : Maybe(SeqsUpTo(ModuleClasses, MaxImports)),
           controllers : Maybe(SeqsUpTo(ControllerClasses, MaxStandalone)),
           providers : Maybe({<<>>, <<"Logger">>})])

NoLocals ==
    /\ controllerClasses = <<>> /\ moduleClasses = <<>> /\ mi = 0
    /\ controllers = <<>> /\ providers = <<>> /\ globalProvidersClasses = <<>>
    /\ ci = 0 /\ combinedRoutes = <<>> /\ controllerInstance = <<>>

PathIdle == prefix = <<>> /\ path = <<>> /\ result = <<>>

Init ==
    /\ PathIdle /\ DispatchIdle
    /\ option \in Options
    /\ unresolvable \in SUBSET ControllerClasses
    /\ pc = "idle"
    /\ NoLocals
    /\ app = <<>> /\ injectors = <<>> /\ trace = <<>> /\ passes = <<>>

\* lines 31-33: the call, its defaults
useExpressServerEntry ==
    /\ controllerClasses' = optionList(option, "controllers")
    /\ moduleClasses' = optionList(option, "imports")
    /\ mi' = 1
    /\ pc' = "modules"
    /\ trace' = <<>>
    /\ UNCHANGED <<dispatchVars, pathVars, option, unresolvable, controllers, providers,
                   globalProvidersClasses, ci, combinedRoutes, controllerInstance,
                   app, injectors, passes>>

\* the call made at startup
UseExpressServer == pc = "idle" /\ useExpressServerEntry

\* a further call on the same app with the same options, after the previous
\* one returned or its exception was caught by the caller
UseExpressServerAgain ==
    /\ pc \in {"done", "thrown"}
    /\ Len(passes) < MaxCalls
    /\ useExpressServerEntry

\* lines 39-46 and 58-62: one module of moduleClasses.forEach
ForEachModule ==
    /\ pc = "modules"
    /\ mi <= Len(moduleClasses)
    /\ LET moduleClass == moduleClasses[mi]
           module == ModuleMetadata[moduleClass]
       IN  /\ trace' = Append(trace, [type |-> "new", class |-> moduleClass])
           /\ controllers' = orEmpty(module.controllers)
           /\ providers' = orEmpty(module.providers)
    /\ globalProvidersClasses' = optionList(option, "providers")
    /\ ci' = 1
    /\ pc' = "controllers"
    /\ UNCHANGED <<dispatchVars, pathVars, option, unresolvable, controllerClasses, moduleClasses,
                   mi, combinedRoutes, controllerInstance, app, injectors, passes>>

\* line 53 and 58-62: the standalone controllers, as a module without providers
GlobalControllers ==
    /\ pc = "modules"
    /\ mi > Len(moduleClasses)
    /\ IF Len(controllerClasses) > 0
       THEN /\ controllers' = orEmpty(<<controllerClasses>>)
            /\ providers' = orEmpty(<<>>)
            /\ globalProvidersClasses' = optionList(option, "providers")
            /\ ci' = 1
            /\ pc' = "controllers"
       ELSE /\ pc' = "return"
            /\ UNCHANGED <<controllers, providers, globalProvidersClasses, ci>>
    /\ UNCHANGED <<dispatchVars, pathVars, option, unresolvable, controllerClasses, moduleClasses,
                   mi, combinedRoutes, controllerInstance, app, injectors, trace,
                   passes>>

\* the provider list handed to ReflectiveInjector.resolveAndCreate (line 70)
injectorSeedShared(controller, moduleProviders, globals) ==
    <<controller>> \o moduleProviders \o globals \o
        (IF injectors = <<>> THEN <<>> ELSE Tail(injectors[Len(injectors)].seed))

injectorSeed(controller, moduleProviders, globals) ==
    <<controller>> \o moduleProviders \o globals

\* where the controller being resolved was declared
owner == IF mi <= Len(moduleClasses) THEN <<moduleClasses[mi]>> ELSE <<>>

\* lines 70-73: the injector, the instance and the combined routes
ResolveController ==
    /\ pc = "controllers"
    /\ ci <= Len(controllers)
    /\ LET controller == controllers[ci]
           seed == injectorSeed(controller, providers, globalProvidersClasses)
       IN  /\ controller \notin unresolvable
           /\ injectors' = Append(injectors, [seed |-> seed, owner |-> owner])
           /\ controllerInstance' = [class |-> controller, injector |-> Len(injectors) + 1]
           /\ combinedRoutes' = combineRouteWithMiddleware(controller)
           /\ trace' = Append(trace, [type |-> "resolve", class |-> controller])
    /\ pc' = "routes"
    /\ UNCHANGED <<dispatchVars, pathVars, option, unresolvable, controllerClasses, moduleClasses,
                   mi, controllers, providers, globalProvidersClasses, ci, app, passes>>

\* the routing table when the current pass began
appAtEntry == IF passes = <<>> THEN <<>> ELSE passes[Len(passes)].app

\* a failure that is caught, the controller skipped and the loop continued
ResolveSkips ==
    /\ pc = "controllers"
    /\ ci <= Len(controllers)
    /\ controllers[ci] \in unresolvable
    /\ trace' = Append(trace, [type |-> "resolve", class |-> controllers[ci]])
    /\ ci' = ci + 1
    /\ UNCHANGED <<dispatchVars, pathVars, option, unresolvable, pc, controllerClasses,
                   moduleClasses, mi, controllers, providers, globalProvidersClasses,
                   combinedRoutes, controllerInstance, app, injectors, passes>>

\* a failure that undoes the registrations of the pass before it propagates
ResolveThrowsRollingBack ==
    /\ pc = "controllers"
    /\ ci <= Len(controllers)
    /\ LET controller == controllers[ci]
           thrown == trace \o <<[type |-> "resolve", class |-> controller],
                                [type |-> "throw", class |-> controller]>>
       IN  /\ controller \in unresolvable
           /\ trace' = thrown
           /\ app' = appAtEntry
           /\ passes' = Append(passes, [returned |-> FALSE, app |-> appAtEntry,
                                        trace |-> thrown])
    /\ pc' = "thrown"
    /\ controllerClasses' = <<>> /\ moduleClasses' = <<>> /\ mi' = 0
    /\ controllers' = <<>> /\ providers' = <<>> /\ globalProvidersClasses' = <<>>
    /\ ci' = 0 /\ combinedRoutes' = <<>> /\ controllerInstance' = <<>>
    /\ UNCHANGED <<dispatchVars, pathVars, option, unresolvable, injectors>>

\* lines 70-71 when the dependencies cannot be satisfied: resolveAndCreate or
\* injector.get throws, nothing catches it, and the exception leaves the pass
ResolveThrows ==
    /\ pc = "controllers"
    /\ ci <= Len(controllers)
    /\ LET controller == controllers[ci]
           seed == injectorSeed(controller, providers, globalProvidersClasses)
           thrown == trace \o <<[type |-> "resolve", class |-> controller],
                                [type |-> "throw", class |-> controller]>>
       IN  /\ controller \in unresolvable
           /\ \E created \in BOOLEAN :
                injectors' = IF created
                             THEN Append(injectors, [seed |-> seed, owner |-> owner])
                             ELSE injectors
           /\ trace' = thrown
           /\ passes' = Append(passes, [returned |-> FALSE, app |-> app,
                                        trace |-> thrown])
    /\ pc' = "thrown"
    /\ controllerClasses' = <<>> /\ moduleClasses' = <<>> /\ mi' = 0
    /\ controllers' = <<>> /\ providers' = <<>> /\ globalProvidersClasses' = <<>>
    /\ ci' = 0 /\ combinedRoutes' = <<>> /\ controllerInstance' = <<>>
    /\ UNCHANGED <<dispatchVars, pathVars, option, unresolvable, app>>

\* line 74: addRouterToExpress(app, combinedRoutes, controllerInstance)
AddRouterToExpress ==
    /\ pc = "routes"
    /\ app' = addRouterToExpress(app, combinedRoutes, controllerInstance)
    /\ trace' = trace \o registered(app, app')
    /\ ci' = ci + 1
    /\ pc' = "controllers"
    /\ UNCHANGED <<dispatchVars, pathVars, option, unresolvable, controllerClasses, moduleClasses,
                   mi, controllers, providers, globalProvidersClasses, combinedRoutes,
                   controllerInstance, injectors, passes>>

\* controllers.forEach is over: addModuleToExpressApp returns to its caller
ControllersDone ==
    /\ pc = "controllers"
    /\ ci > Len(controllers)
    /\ IF mi <= Len(moduleClasses)
       THEN mi' = mi + 1 /\ pc' = "modules"
       ELSE mi' = mi /\ pc' = "return"
    /\ controllers' = <<>> /\ providers' = <<>> /\ globalProvidersClasses' = <<>>
    /\ ci' = 0
    /\ UNCHANGED <<dispatchVars, pathVars, option, unresolvable, controllerClasses, moduleClasses,
                   combinedRoutes, controllerInstance, app, injectors, trace, passes>>

\* line 55
ReturnTrue ==
    /\ pc = "return"
    /\ passes' = Append(passes, [returned |-> TRUE, app |-> app, trace |-> trace])
    /\ pc' = "done"
    /\ controllerClasses' = <<>> /\ moduleClasses' = <<>> /\ mi' = 0
    /\ UNCHANGED <<dispatchVars, pathVars, option, unresolvable, controllers, providers,
                   globalProvidersClasses, ci, combinedRoutes, controllerInstance,
                   app, injectors, trace>>

Next ==
    \/ UseExpressServer
    \/ ForEachModule
    \/ GlobalControllers
    \/ ResolveController
    \/ ResolveThrows
    \/ AddRouterToExpress
    \/ ControllersDone
    \/ ReturnTrue

Spec == Init /\ [][Next]_vars

\* the same bootstrap, called up to MaxCalls times
InitTwice == Init /\ unresolvable \in {{}, {"PostCtl"}}

SpecTwice == InitTwice /\ [][Next \/ UseExpressServerAgain]_vars

(***************************************************************************)
(* The path combiner and the route registrar on their own: every pair of   *)
(* strings up to MaxLen, and every list of up to MaxRoutes combined routes *)
(* for one standalone controller whose instance has just been resolved.    *)
(***************************************************************************)
RouteEntries ==
    [isClass : BOOLEAN, requestMethod : {"get", "post"},
     path : {<<"/", "a">>, <<"b">>}, methodName : {"handle"},
     middlewares : {<<>>, <<"auth">>}]

InitCombine ==
    /\ DispatchIdle
    /\ prefix \in Strings /\ path \in Strings /\ result = <<>>
    /\ option = <<>> /\ unresolvable = {}
    /\ pc = "combine"
    /\ NoLocals
    /\ app = <<>> /\ injectors = <<>> /\ trace = <<>> /\ passes = <<>>

InitRegistrar ==
    /\ PathIdle /\ DispatchIdle
    /\ option = << [imports |-> <<>>, controllers |-> << <<"UserCtl">> >>,
                    providers |-> <<>>] >>
    /\ unresolvable = {}
    /\ pc = "routes"
    /\ controllerClasses = <<"UserCtl">> /\ moduleClasses = <<>> /\ mi = 1
    /\ controllers = <<"UserCtl">> /\ providers = <<>>
    /\ globalProvidersClasses = <<>> /\ ci = 1
    /\ combinedRoutes \in SeqsUpTo(RouteEntries, MaxRoutes)
    /\ controllerInstance = [class |-> "UserCtl", injector |-> 1]
    /\ app = <<>>
    /\ injectors = << [seed |-> <<"UserCtl">>, owner |-> <<>>] >>
    /\ trace = << [type |-> "resolve", class |-> "UserCtl"] >>
    /\ passes = <<>>

\* lines 100-113, applied to the arguments
CombineRouterPath ==
    /\ pc = "combine"
    /\ result' = combineRouterPath(prefix, path)
    /\ pc' = "combined"
    /\ UNCHANGED <<dispatchVars, prefix, path, option, unresolvable, controllerClasses,
                   moduleClasses, mi, controllers, providers, globalProvidersClasses,
                   ci, combinedRoutes, controllerInstance, app, injectors, trace,
                   passes>>

SpecPath ==
    (InitCombine \/ InitRegistrar) /\ [][CombineRouterPath \/ AddRouterToExpress]_vars

(***************************************************************************)
(* Requests in flight on the handlers registered for one controller        *)
(* instance.  The routing table is what addRouterToExpress registered for  *)
(* the controller, one of its routes naming a method the instance lacks.   *)
(***************************************************************************)
DispatchRoutes ==
    combineRouteWithMiddleware("UserCtl")
        \o << Route(FALSE, "get", <<"g">>, "gone", <<>>) >>

InitDispatch ==
    /\ PathIdle
    /\ option = << [imports |-> <<>>, controllers |-> << <<"UserCtl">> >>,
                    providers |-> <<>>] >>
    /\ unresolvable = {}
    /\ pc = "listening"
    /\ NoLocals
    /\ app = addRouterToExpress(<<>>, DispatchRoutes, [class |-> "UserCtl", injector |-> 1])
    /\ injectors = << [seed |-> <<"UserCtl">>, owner |-> <<>>] >>
    /\ trace = <<>> /\ passes = <<>>
    /\ served = [r \in Requests |-> 0]
    /\ promise = [r \in Requests |-> NoPromise]
    /\ calls = <<>>
    /\ nextCalls = [r \in Requests |-> <<>>]
    /\ hung \in SUBSET Requests

\* Express hands request r to the handler of app[k]: lines 125-127 run
\* fn(req, res, next), which runs lines 116-118, and attach .catch(next)
Invoke(r, k) ==
    /\ pc = "listening"
    /\ promise[r].state = "none"
    /\ served' = [served EXCEPT ![r] = k]
    /\ LET handler == app[k].stack[Len(app[k].stack)]
       IN  \E outcome \in {[kind |-> "awaits", error |-> ""]}
                            \cup {[kind |-> "throws", error |-> e] : e \in Errors} :
             /\ promise' = [promise EXCEPT ![r] = asyncHelper(fn(handler, outcome), r)]
             /\ calls' = IF handler.methodName \in Methods(handler.instance.class)
                         THEN Append(calls, [instance |-> handler.instance,
                                             methodName |-> handler.methodName,
                                             req |-> r, res |-> r, next |-> r])
                         ELSE calls
    /\ UNCHANGED <<pathVars, bootVars, nextCalls, hung>>

\* the awaited controller method of request r settles
MethodSettles(r) ==
    /\ promise[r].state = "pending"
    /\ r \notin hung
    /\ \E settled \in {[state |-> "fulfilled", reason |-> ""]}
                        \cup {[state |-> "rejected", reason |-> e] : e \in Errors} :
         promise' = [promise EXCEPT ![r].state = settled.state,
                                    ![r].reason = settled.reason]
    /\ UNCHANGED <<pathVars, bootVars, served, calls, nextCalls, hung>>

\* the reaction job .catch(next) queued for the promise of request r
CatchReaction(r) ==
    /\ promise[r].state \in {"fulfilled", "rejected"}
    /\ ~promise[r].reacted
    /\ promise' = [promise EXCEPT ![r].reacted = TRUE]
    /\ LET target == IF promise[r].state = "rejected" THEN promise[r].onRejected
                     ELSE promise[r].onFulfilled
           argument == IF promise[r].state = "rejected" THEN promise[r].reason
                       ELSE "undefined"
       IN  nextCalls' = IF target = 0 THEN nextCalls
                        ELSE [nextCalls EXCEPT ![target] = Append(@, argument)]
    /\ UNCHANGED <<pathVars, bootVars, served, calls, hung>>

NextDispatch ==
    \/ \E r \in Requests : \E k \in 1..Len(app) : Invoke(r, k)
    \/ \E r \in Requests : MethodSettles(r)
    \/ \E r \in Requests : CatchReaction(r)

SpecDispatch == InitDispatch /\ [][NextDispatch]_vars

\* the job queue runs every queued reaction; a method that is not hung settles
FairDispatch ==
    /\ SpecDispatch
    /\ \A r \in Requests : WF_vars(CatchReaction(r))
    /\ \A r \in Requests : WF_vars(MethodSettles(r))

(***************************************************************************)
(* C2: every result of combineRouterPath begins with '/', for every pair   *)
(* of strings, the empty string and strings of slashes included; so every  *)
(* path in the routing table begins with '/'.                              *)
(***************************************************************************)
C2_ResultStartsWithSlash ==
    /\ pc = "combined" => Len(result) >= 1 /\ result[1] = "/"
    /\ \A k \in 1..Len(app) : Len(app[k].path) >= 1 /\ app[k].path[1] = "/"

C2_Witness ==
    /\ pc = "combined"
    /\ prefix = <<"/", "/">> /\ path = <<>>
    /\ result = <<"/", "/">>

\* the reference combiner: at most one leading '/' stripped from each argument
StripOne(s) == IF Len(s) >= 1 /\ s[1] = "/" THEN Tail(s) ELSE s

Reference(pfx, pth) ==
    LET joined == StripOne(pfx) \o <<"/">> \o StripOne(pth)
    IN  IF joined[1] = "/" THEN joined ELSE <<"/">> \o joined

(***************************************************************************)
(* C3: combineRouterPath equals the reference: strip at most one leading   *)
(* '/' from each argument, join with '/', prepend '/' only if the result   *)
(* does not start with one; nothing else is normalised.                    *)
(***************************************************************************)
C3_EqualsReference ==
    pc = "combined" =>
        /\ result = Reference(prefix, path)
        /\ (prefix = <<>> /\ path = <<"x">>) => result = <<"/", "x">>
        /\ (prefix = <<>> /\ path = <<>>) => result = <<"/">>
        /\ (prefix = <<"/", "a", "/">> /\ path = <<"b">>)
               => result = <<"/", "a", "/", "/", "b">>

C3_Witness ==
    /\ pc = "combined"
    /\ prefix = <<"/", "a", "/">> /\ path = <<"b">>
    /\ result = <<"/", "a", "/", "/", "b">>

\* the entries that are method routes, and the first prefix-bearing entry
IsMethodRoute(r) == ~r.isClass

FirstClassPath(routes) ==
    LET classes == {i \in 1..Len(routes) : routes[i].isClass}
    IN  IF classes = {} THEN <<>>
        ELSE routes[CHOOSE i \in classes : \A j \in classes : i <= j].path

(***************************************************************************)
(* C4: the registrar makes one registration per entry whose isClass is     *)
(* false, none for an isClass entry, each under the entry's verb, at       *)
(* combineRouterPath(p, entry.path), p being the path of the first isClass *)
(* entry of the list, or the empty string when there is none.              *)
(***************************************************************************)
C4_OneRegistrationPerMethodRoute ==
    (pc = "controllers" /\ passes = <<>> /\ ci = 2 /\ Len(injectors) = 1) =>
        LET entries == SelectSeq(combinedRoutes, IsMethodRoute)
            p == FirstClassPath(combinedRoutes)
        IN  /\ Len(app) = Len(entries)
            /\ \A k \in 1..Len(entries) :
                 /\ app[k].method = entries[k].requestMethod
                 /\ app[k].path = combineRouterPath(p, entries[k].path)
                 /\ app[k].stack[Len(app[k].stack)] =
                        [instance |-> controllerInstance,
                         methodName |-> entries[k].methodName]

C4_Witness ==
    /\ pc = "controllers" /\ Len(combinedRoutes) = 3 /\ Len(app) = 1
    /\ combinedRoutes[1].isClass /\ combinedRoutes[2].isClass
    /\ combinedRoutes[1].path = <<"/", "a">> /\ combinedRoutes[2].path = <<"b">>
    /\ app[1].method = "post" /\ app[1].path = <<"/", "a", "/", "b">>

(***************************************************************************)
(* What one pass is expected to do, read off the inputs alone: the modules *)
(* of `imports` in order, each instantiated and then its controllers in    *)
(* declared order, each resolved and then its method routes in descriptor  *)
(* order; the standalone controllers last.                                 *)
(***************************************************************************)
RECURSIVE ConcatMap(_, _)
ConcatMap(Op(_), s) ==
    IF s = <<>> THEN <<>> ELSE Op(Head(s)) \o ConcatMap(Op, Tail(s))

RouteEvents(c) ==
    LET routes == combineRouteWithMiddleware(c)
        entries == SelectSeq(routes, IsMethodRoute)
    IN  [k \in 1..Len(entries) |->
            [type |-> "register", class |-> c, method |-> entries[k].requestMethod,
             path |-> combineRouterPath(FirstClassPath(routes), entries[k].path)]]

ControllerEvents(c) == << [type |-> "resolve", class |-> c] >> \o RouteEvents(c)

DeclaredControllers(m) == orEmpty(ModuleMetadata[m].controllers)
DeclaredProviders(m) == orEmpty(ModuleMetadata[m].providers)

ModuleEvents(m) ==
    << [type |-> "new", class |-> m] >> \o ConcatMap(ControllerEvents, DeclaredControllers(m))

Imports == optionList(option, "imports")
Standalone == optionList(option, "controllers")
GlobalProviders == optionList(option, "providers")

Expected == ConcatMap(ModuleEvents, Imports) \o ConcatMap(ControllerEvents, Standalone)

IsPrefix(s, t) == Len(s) <= Len(t) /\ s = SubSeq(t, 1, Len(s))
IsResolve(e) == e.type = "resolve"
IsRegister(e) == e.type = "register"
IsNew(e) == e.type = "new"
IsThrow(e) == e.type = "throw"

\* position in e of the first controller that cannot be resolved, 0 if none
FirstFailureIn(e) ==
    LET bad == {i \in 1..Len(e) : IsResolve(e[i]) /\ e[i].class \in unresolvable}
    IN  IF bad = {} THEN 0 ELSE CHOOSE i \in bad : \A j \in bad : i <= j

InPass == pc \in {"modules", "controllers", "routes", "return"}
AppBefore(i) == IF i = 1 THEN <<>> ELSE passes[i - 1].app
Gained(i) == SubSeq(passes[i].app, Len(AppBefore(i)) + 1, Len(passes[i].app))
Handler(e) == e.stack[Len(e.stack)]
VerbPath(table) == [k \in 1..Len(table) |-> <<table[k].method, table[k].path>>]
Count(vp, table) ==
    Cardinality({k \in 1..Len(table) : <<table[k].method, table[k].path>> = vp})

(***************************************************************************)
(* C5: every controller processed gets an injector of its own, seeded with *)
(* [controller, ...providers of its module, ...global providers] in that   *)
(* order; a standalone controller gets [controller, ...global providers]   *)
(* and no module's providers; no injector serves two controllers, so as    *)
(* many injectors are created as controllers are processed.                *)
(***************************************************************************)
C5_FreshSeededInjectorPerController ==
    /\ \A k \in 1..Len(injectors) :
         LET inj == injectors[k]
             c == inj.seed[1]
         IN  IF inj.owner = <<>>
             THEN /\ inj.seed = <<c>> \o GlobalProviders
                  /\ \E i \in 1..Len(Standalone) : Standalone[i] = c
             ELSE /\ inj.seed = <<c>> \o DeclaredProviders(inj.owner[1]) \o GlobalProviders
                  /\ \E i \in 1..Len(DeclaredControllers(inj.owner[1])) :
                        DeclaredControllers(inj.owner[1])[i] = c
    /\ \A k \in 1..Len(app) :
         /\ Handler(app[k]).instance.injector \in 1..Len(injectors)
         /\ injectors[Handler(app[k]).instance.injector].seed[1]
                = Handler(app[k]).instance.class
    /\ (\A i \in 1..Len(passes) : passes[i].returned) =>
          Len(injectors) =
              Len(passes) * Len(SelectSeq(Expected, IsResolve))
              + (IF InPass THEN Len(SelectSeq(trace, IsResolve)) ELSE 0)

C5_Witness ==
    /\ pc = "done"
    /\ Len(injectors) = 3
    /\ injectors[1] = [seed |-> <<"UserCtl", "UserSvc", "PostSvc", "Logger">>,
                       owner |-> <<"UserModule">>]
    /\ injectors[3] = [seed |-> <<"PostCtl", "Logger">>, owner |-> <<>>]

(***************************************************************************)
(* C6: a second call with the same options on the same app appends a full  *)
(* duplicate of what the first call registered: every verb+path is held    *)
(* twice as often as after one call (twice, when one call registers it     *)
(* once); nothing is merged, replaced or rejected; both calls return true. *)
(***************************************************************************)
C6_SecondCallDuplicates ==
    (Len(passes) >= 2 /\ passes[1].returned) =>
        LET one == VerbPath(passes[1].app)
            two == VerbPath(passes[2].app)
        IN  /\ passes[2].returned
            /\ one = VerbPath(Gained(1))
            /\ two = one \o one
            /\ \A k \in 1..Len(one) :
                 /\ Count(one[k], passes[2].app) = 2 * Count(one[k], passes[1].app)
                 /\ Count(one[k], passes[1].app) = 1 => Count(one[k], passes[2].app) = 2

C6_Witness ==
    /\ Len(passes) = 2 /\ passes[1].returned /\ passes[2].returned
    /\ Len(passes[1].app) = 4 /\ Len(passes[2].app) = 8
    /\ Count(<<"get", <<"/", "u", "/", ":">> >>, passes[1].app) = 1
    /\ Count(<<"get", <<"/", "u", "/", ":">> >>, passes[2].app) = 2

(***************************************************************************)
(* C7: a call returns true exactly when the pass reaches its end, whatever *)
(* the options, none included; when a controller cannot be resolved the    *)
(* exception leaves useExpressServer, true is not returned, and nothing    *)
(* that comes after the failing controller is instantiated, resolved or    *)
(* registered.                                                             *)
(***************************************************************************)
C7_TrueOnlyAtTheEnd ==
    /\ passes # <<>> =>
         LET e == Expected
             f == FirstFailureIn(e)
         IN  \A i \in 1..Len(passes) :
               /\ passes[i].returned <=> passes[i].trace = e
               /\ passes[i].returned <=> f = 0
               /\ ~passes[i].returned =>
                     passes[i].trace = SubSeq(e, 1, f)
                                          \o << [type |-> "throw", class |-> e[f].class] >>
    /\ pc = "done" => passes[Len(passes)].returned /\ trace = passes[Len(passes)].trace
    /\ pc = "thrown" =>
          /\ ~passes[Len(passes)].returned
          /\ trace = passes[Len(passes)].trace /\ app = passes[Len(passes)].app
    /\ (option = <<>> /\ pc \in {"done", "thrown"}) => pc = "done" /\ app = <<>>

C7_Witness ==
    /\ pc = "thrown"
    /\ Imports = <<"UserModule", "PingModule">> /\ Standalone = <<"UserCtl">>
    /\ unresolvable = {"PostCtl"}
    /\ Len(passes) = 1 /\ Len(trace) = 6

\* the events of a pass before its exception, if any
WithoutThrow(t) ==
    IF t # <<>> /\ IsThrow(t[Len(t)]) THEN SubSeq(t, 1, Len(t) - 1) ELSE t

(***************************************************************************)
(* C8: the order of events in a pass is fixed by the inputs: modules in    *)
(* `imports` order, each instantiated once and before its controllers;     *)
(* controllers in declared order, all routes of one registered before the  *)
(* next is resolved; routes in descriptor order; the standalone            *)
(* controllers only after every imported module.                           *)
(***************************************************************************)
C8_OrderFixedByInputs ==
    LET e == Expected
        done == WithoutThrow(trace)
        regs == SelectSeq(done, IsRegister)
        passStart == IF InPass THEN appAtEntry ELSE AppBefore(Len(passes))
        gained == SubSeq(app, Len(passStart) + 1, Len(app))
    IN  /\ IsPrefix(done, e)
        /\ pc \in {"return", "done"} => trace = e
        /\ (InPass \/ pc \in {"done", "thrown"}) =>
              /\ Len(gained) = Len(regs)
              /\ \A k \in 1..Len(regs) :
                   /\ gained[k].method = regs[k].method
                   /\ gained[k].path = regs[k].path
                   /\ Handler(gained[k]).instance.class = regs[k].class

C8_Witness ==
    /\ pc = "done" /\ Len(passes) = 1
    /\ Imports = <<"PingModule", "UserModule">> /\ Standalone = <<"PostCtl">>
    /\ Len(trace) = 12
    /\ trace[1] = [type |-> "new", class |-> "PingModule"]
    /\ trace[4].path = <<"/", "k", "/", "/", "u", "/", ":">>
    /\ trace[5] = [type |-> "new", class |-> "UserModule"]
    /\ trace[11] = [type |-> "resolve", class |-> "PostCtl"]

\* how many modules of `imports` are handled up to and including the one
\* whose events hold position f of the expected order
ModulesThrough(f) ==
    LET reach == {k \in 0..Len(Imports) :
                    Len(ConcatMap(ModuleEvents, SubSeq(Imports, 1, k))) >= f}
    IN  IF reach = {} THEN Len(Imports)
        ELSE CHOOSE k \in reach : \A j \in reach : k <= j

(***************************************************************************)
(* C10: a pass that aborts is not rolled back: when resolution fails for   *)
(* a controller, every route registered for the controllers before it is   *)
(* still in the routing table after the exception, every module up to and  *)
(* including the failing controller's has been instantiated, and the       *)
(* failing controller has contributed no registration.                     *)
(***************************************************************************)
C10_AbortKeepsEarlierRoutes ==
    passes # <<>> =>
        LET e == Expected
            f == FirstFailureIn(e)
        IN  \A i \in 1..Len(passes) :
              ~passes[i].returned =>
                 LET regs == SelectSeq(SubSeq(e, 1, f - 1), IsRegister)
                     g == Gained(i)
                     news == SelectSeq(passes[i].trace, IsNew)
                     through == SubSeq(Imports, 1, ModulesThrough(f))
                 IN  /\ IsPrefix(AppBefore(i), passes[i].app)
                     /\ Len(g) = Len(regs)
                     /\ \A k \in 1..Len(regs) :
                          /\ g[k].method = regs[k].method
                          /\ g[k].path = regs[k].path
                          /\ Handler(g[k]).instance.class = regs[k].class
                          /\ Handler(g[k]).instance.class # e[f].class
                     /\ news = [k \in 1..Len(through) |->
                                   [type |-> "new", class |-> through[k]]]
                     /\ (i = Len(passes) /\ pc = "thrown") => app = passes[i].app

C10_Witness ==
    /\ pc = "thrown" /\ Len(passes) = 1
    /\ Imports = <<"UserModule", "PingModule">>
    /\ unresolvable = {"PostCtl"}
    /\ Len(app) = 2
    /\ app[1].path = <<"/", "u", "/", ":">> /\ app[2].path = <<"/", "u", "/">>
    /\ Handler(app[2]).instance.class = "UserCtl"
    /\ SelectSeq(trace, IsNew) = << [type |-> "new", class |-> "UserModule"] >>

\* what next of request r has been called with, by the state of its promise
C1_Safe(r) ==
    /\ promise[r].state \in {"none", "pending", "fulfilled"} => nextCalls[r] = <<>>
    /\ (promise[r].state = "rejected" /\ ~promise[r].reacted) => nextCalls[r] = <<>>
    /\ (promise[r].state = "rejected" /\ promise[r].reacted)
          => nextCalls[r] = <<promise[r].reason>>

C1_Rejected(r) == promise[r].state = "rejected"
C1_NextCalledOnce(r) == nextCalls[r] = <<promise[r].reason>>

(***************************************************************************)
(* C1: for one invocation of the handler asyncHelper returns: when the     *)
(* promise of fn resolves the wrapper never calls next; when it rejects    *)
(* with E the wrapper calls next exactly once, with E.                     *)
(***************************************************************************)
C1_NextOnlyOnRejection ==
    /\ [](\A r \in Requests : C1_Safe(r))
    /\ \A r \in Requests : C1_Rejected(r) ~> C1_NextCalledOnce(r)

C1_Witness ==
    /\ promise[1].state = "fulfilled" /\ promise[1].reacted /\ nextCalls[1] = <<>>
    /\ promise[2].state = "rejected" /\ promise[2].reacted
    /\ promise[2].reason = "E1" /\ nextCalls[2] = <<"E1">>

\* the controller-method invocations made for request r
CallsOf(r) == SelectSeq(calls, LAMBDA c : c.req = r)

C9_Safe(r) ==
    /\ served[r] = 0 => promise[r].state = "none" /\ CallsOf(r) = <<>>
    /\ served[r] # 0 =>
          LET handler == Handler(app[served[r]])
          IN  IF handler.methodName \in Methods(handler.instance.class)
              THEN CallsOf(r) = << [instance |-> [class |-> "UserCtl", injector |-> 1],
                                    methodName |-> app[served[r]].stack[
                                        Len(app[served[r]].stack)].methodName,
                                    req |-> r, res |-> r, next |-> r] >>
              ELSE /\ CallsOf(r) = <<>>
                   /\ promise[r].state = "rejected" /\ promise[r].reason = "TypeError"
    /\ nextCalls[r] = IF promise[r].state = "rejected" /\ promise[r].reacted
                      THEN <<promise[r].reason>> ELSE <<>>
    /\ r \in hung => promise[r].state \in {"none", "pending", "rejected"}

C9_InFlight(r) == served[r] # 0 /\ (r \notin hung \/ promise[r].state = "rejected")
C9_Completed(r) ==
    /\ promise[r].reacted
    /\ promise[r].state = "rejected" => nextCalls[r] = <<promise[r].reason>>

(***************************************************************************)
(* C9: with several requests in flight on handlers of one controller       *)
(* instance, settling in any order: each invocation calls the method its   *)
(* route names, on the instance resolved at registration, with its own     *)
(* (req, res, next); a failure (rejection, synchronous throw, absent       *)
(* method) is forwarded once to the next of the same request and to no     *)
(* other; a method that never settles keeps no other invocation from       *)
(* completing or from having its failure forwarded.                        *)
(***************************************************************************)
C9_RequestsAreIsolated ==
    /\ [](\A r \in Requests : C9_Safe(r))
    /\ \A r \in Requests : C9_InFlight(r) ~> C9_Completed(r)

C9_Witness ==
    /\ hung = {1}
    /\ promise[1].state = "pending" /\ calls[1].req = 1
    /\ Len(calls) = 1 /\ served[2] = 3
    /\ promise[2].state = "rejected" /\ promise[2].reason = "TypeError"
    /\ nextCalls[2] = <<"TypeError">> /\ nextCalls[1] = <<>>

====
